---- MODULE Spec2Model ----
(***************************************************************************)
(* Model of the two adapters of evm-adapters:                              *)
(*   - EvmOdin (src/evm-adapters/src/evmodin.rs): the Evm trait            *)
(*     implementation over an evmodin Host, with the HostExt code-storage  *)
(*     extension for MockedHost;                                           *)
(*   - CheatcodeHandler (src/evm-adapters/src/sputnik/cheatcodes/          *)
(*     cheatcode_handler.rs): the sputnik Handler wrapper that intercepts  *)
(*     calls to CHEATCODE_ADDRESS.                                         *)
(* Option<T> values are modelled as sequences of length at most one:       *)
(* <<>> is None and <<x>> is Some(x).                                      *)
(***************************************************************************)
EXTENDS Integers, Sequences, FiniteSets, TLC

VARIABLES
    host,      \* EvmOdin.host: the accounts of the MockedHost
    written,   \* history: code last installed per address since the host was set
    last,      \* the last EvmOdin operation, its inputs and its result
    handler,   \* CheatcodeHandler.handler: state of the wrapped StackExecutor
    invoked,   \* the method of the wrapped handler the last operation invoked
    hlast,     \* the last CheatcodeHandler operation, its arguments and result
    bare       \* the bare wrapped handler run on the same operation from the same state

vars == <<host, written, last, handler, invoked, hlast, bare>>
odinVars == <<host, written, last>>
cheatVars == <<handler, invoked, hlast, bare>>

\* ------------------------------------------------------------------------
\* Bounds
\* ------------------------------------------------------------------------
MaxEntries == 2     \* most entries of one initialize_contracts call
MaxLogs == 1        \* most log records kept by the wrapped handler

None == <<>>
Some(x) == <<x>>

SeqUpTo(S, n) == UNION {[1..k -> S] : k \in 0..n}

\* ------------------------------------------------------------------------
\* EvmOdin over MockedHost
\* ------------------------------------------------------------------------
Address == {"0x1000000000000000000000000000000000000000",
            "0x2000000000000000000000000000000000000000"}

ZeroAddress == "0x0000000000000000000000000000000000000000"

\* the bytecodes installed: empty code and two programs
Bytecodes == {<<>>, <<1>>, <<0, 1>>}

\* keccak256 stands for the external hash: a deterministic digest of the
\* bytes (position-weighted, 16 bits wide), not the bytes themselves.
RECURSIVE Digest(_, _)
Digest(bytes, acc) ==
    IF bytes = <<>> THEN acc
    ELSE Digest(Tail(bytes), (acc * 31 + Head(bytes) + 7) % 65536)

keccak256(bytes) == Digest(bytes, 50513)

EmptyStorage == <<>>
WrittenStorage == <<1>>

Account(nonce, balance, code, code_hash, storage) ==
    [nonce |-> nonce, balance |-> balance, code |-> code,
     code_hash |-> code_hash, storage |-> storage]

\* MockedHost::default(): no accounts
DefaultHost == <<>>

\* HashMap::insert
MapInsert(m, k, v) == [x \in (DOMAIN m) \cup {k} |-> IF x = k THEN v ELSE m[x]]

\* HashMap::get
MapGet(m, k) == IF k \in DOMAIN m THEN Some(m[k]) ELSE None

\* HostExt::get_code for MockedHost
get_code(h, address) ==
    LET acc == MapGet(h, address)
    IN  IF acc = None THEN None ELSE Some(acc[1].code)

\* set_code that keeps an account already present (entry().or_insert)
set_code_keep_existing(h, address, bytecode) ==
    IF address \in DOMAIN h THEN h
    ELSE MapInsert(h, address, Account(0, 0, bytecode, keccak256(bytecode), EmptyStorage))

\* HostExt::set_code for MockedHost
set_code(h, address, bytecode) ==
    LET hash == keccak256(bytecode)
    IN  MapInsert(h, address, Account(0, 0, bytecode, hash, EmptyStorage))

\* initialize_contracts: contracts.into_iter().for_each(set_code)
RECURSIVE initialize_contracts(_, _)
initialize_contracts(h, contracts) ==
    IF contracts = <<>> THEN h
    ELSE initialize_contracts(
             set_code(h, Head(contracts).address, Head(contracts).bytecode),
             Tail(contracts))

\* history of installation: the bytecode of the last entry per address
RECURSIVE LastWritten(_, _)
LastWritten(w, contracts) ==
    IF contracts = <<>> THEN w
    ELSE LastWritten([w EXCEPT ![Head(contracts).address] = Some(Head(contracts).bytecode)],
                     Tail(contracts))

\* ---- ABI functions and the codec ---------------------------------------
StateMutability == {"Pure", "View", "NonPayable", "Payable"}

\* dapp_utils::get_func("function failed() returns (bool)")
FailedFunction == [constant |-> FALSE, state_mutability |-> "NonPayable", outputs |-> "bool"]

\* ethers::abi::Function: the deprecated `constant` field, the state
\* mutability and the declared return signature (none, or one bool).
\* The functions called: every flag and mutability without return value,
\* and failed().
Functions ==
    [constant : BOOLEAN, state_mutability : StateMutability, outputs : {"unit"}]
        \cup {FailedFunction}

\* output data of the engine, in 32-byte words
Outputs == {<<>>, <<0>>, <<1>>}

\* decode_function_data(func, output, false): Err is None
decode_function_data(func, output) ==
    IF func.outputs = "unit" THEN Some("unit")
    ELSE IF Len(output) < 1 THEN None
    ELSE Some(IF output[1] = 0 THEN "false" ELSE "true")

StatusCode == {"Success", "Failure", "Revert", "OutOfGas"}

\* call_kind: None after EvmOdin::new
call_kind == None

\* a Message whose static flag ignores the deprecated `constant` field
Message_mutability_only(from, to, func, value) ==
    [sender |-> from, destination |-> to, depth |-> 0,
     kind |-> IF call_kind = None THEN "Call" ELSE call_kind[1],
     value |-> value,
     is_static |-> func.state_mutability \in {"View", "Pure"}]

\* the Message built by EvmOdin::call
Message(from, to, func, value) ==
    [sender |-> from, destination |-> to, depth |-> 0,
     kind |-> IF call_kind = None THEN "Call" ELSE call_kind[1],
     value |-> value,
     is_static |-> func.constant \/ func.state_mutability \in {"View", "Pure"}]

\* AnalyzedCode::execute: the engine is opaque; every outcome it may produce.
\* Empty code stops at once; a non-static message may write storage at the
\* destination.
execute(h, code, message) ==
    IF code = <<>> THEN {[status_code |-> "Success", output_data |-> <<>>, host |-> h]}
    ELSE LET effects == {h} \cup
                 IF message.is_static THEN {}
                 ELSE {[h EXCEPT ![message.destination].storage = WrittenStorage]}
             results == {<<"Success", <<>> >>, <<"Success", <<0>> >>, <<"Success", <<1>> >>,
                         <<"Revert", <<>> >>, <<"Failure", <<>> >>}
         IN  {[status_code |-> r[1], output_data |-> r[2], host |-> e] :
                  r \in results, e \in effects}

CallResult(result, retdata, status, h, executed, message) ==
    [result |-> result, retdata |-> retdata, status |-> status, host |-> h,
     executed |-> executed, is_static |-> message.is_static]

\* a call that runs empty code when the destination has no account
\* (get_code(..).cloned().unwrap_or_default())
EvmOdin_call_no_lookup_error(h, from, to, func, args_encode, value) ==
    LET message == Message(from, to, func, value)
        bytecode == get_code(h, to)
    IN  IF ~args_encode
        THEN {CallResult("EncodeErr", None, "none", h, FALSE, message)}
        ELSE {LET retdata == decode_function_data(func, out.output_data)
              IN  IF retdata = None
                  THEN CallResult("DecodeErr", None, "none", out.host, TRUE, message)
                  ELSE CallResult("Ok", retdata, out.status_code, out.host, TRUE, message)
              : out \in execute(h, IF bytecode = None THEN <<>> ELSE bytecode[1], message)}

\* EvmOdin::call: the set of outcomes, one per outcome of the engine.
\* args_encode tells whether the arguments match the function's inputs.
EvmOdin_call(h, from, to, func, args_encode, value) ==
    LET message == Message(from, to, func, value)
        bytecode == get_code(h, to)
    IN  IF ~args_encode
        THEN {CallResult("EncodeErr", None, "none", h, FALSE, message)}
        ELSE IF bytecode = None
        THEN {CallResult("NoContractErr", None, "none", h, FALSE, message)}
        ELSE {LET retdata == decode_function_data(func, out.output_data)
              IN  IF retdata = None
                  THEN CallResult("DecodeErr", None, "none", out.host, TRUE, message)
                  ELSE CallResult("Ok", retdata, out.status_code, out.host, TRUE, message)
              : out \in execute(h, bytecode[1], message)}

\* Evm::failed: the failed() probe, a call of failed() on the contract
failed(h, address) ==
    {[result |-> IF o.result = "Ok" THEN Some(o.retdata[1] = "true") ELSE None,
      host |-> o.host]
     : o \in EvmOdin_call(h, ZeroAddress, address, FailedFunction, TRUE, 0)}

\* check_success that negates the probe (!self.failed(address).unwrap_or(false))
check_success_negated_probe(h, address, result, should_fail) ==
    IF should_fail
    THEN CASE result = "Revert" -> {[value |-> TRUE, probe |-> "none", host |-> h]}
           [] result = "Success" ->
                {[value |-> IF p.result = None THEN TRUE ELSE ~p.result[1],
                  probe |-> IF p.result = None THEN "Err"
                            ELSE IF p.result[1] THEN "Ok(true)" ELSE "Ok(false)",
                  host |-> p.host] : p \in failed(h, address)}
           [] OTHER -> {[value |-> FALSE, probe |-> "none", host |-> h]}
    ELSE {[value |-> result = "Success", probe |-> "none", host |-> h]}

\* check_success that takes every non-success status for the expected failure
check_success_any_failure(h, address, result, should_fail) ==
    IF should_fail
    THEN CASE result = "Success" ->
                {[value |-> IF p.result = None THEN FALSE ELSE p.result[1],
                  probe |-> IF p.result = None THEN "Err"
                            ELSE IF p.result[1] THEN "Ok(true)" ELSE "Ok(false)",
                  host |-> p.host] : p \in failed(h, address)}
           [] OTHER -> {[value |-> TRUE, probe |-> "none", host |-> h]}
    ELSE {[value |-> result = "Success", probe |-> "none", host |-> h]}

\* EvmOdin::check_success: the set of outcomes [value, probe, host]
check_success(h, address, result, should_fail) ==
    IF should_fail
    THEN CASE result = "Revert" -> {[value |-> TRUE, probe |-> "none", host |-> h]}
           [] result = "Success" ->
                {[value |-> IF p.result = None THEN FALSE ELSE p.result[1],
                  probe |-> IF p.result = None THEN "Err"
                            ELSE IF p.result[1] THEN "Ok(true)" ELSE "Ok(false)",
                  host |-> p.host] : p \in failed(h, address)}
           [] OTHER -> {[value |-> FALSE, probe |-> "none", host |-> h]}
    ELSE {[value |-> result = "Success", probe |-> "none", host |-> h]}

\* ---- the record of the last EvmOdin operation --------------------------
NoFunction == [constant |-> FALSE, state_mutability |-> "none", outputs |-> "none"]

Last(op) ==
    [op |-> op, address |-> "none", func |-> NoFunction, encoded |-> FALSE,
     entries |-> <<>>, result |-> "none", status |-> "none", executed |-> FALSE,
     is_static |-> FALSE, should_fail |-> FALSE, probe |-> "none", value |-> FALSE]

NothingWritten == [a \in Address |-> None]

\* hosts handed to EvmOdin::new and to reset: empty, or one funded account
FundedAccount(code) == Account(1, 1, code, keccak256(code), EmptyStorage)

HostStates ==
    {DefaultHost} \cup {MapInsert(DefaultHost, a, FundedAccount(<<1>>)) : a \in Address}

Contracts == SeqUpTo([address : Address, bytecode : Bytecodes], MaxEntries)

\* ---- actions ------------------------------------------------------------
Reset ==
    \E state \in HostStates :
        /\ host' = state
        /\ written' = NothingWritten
        /\ last' = Last("reset")
        /\ UNCHANGED cheatVars

InitializeContracts ==
    \E contracts \in Contracts :
        /\ host' = initialize_contracts(host, contracts)
        /\ written' = LastWritten(written, contracts)
        /\ last' = [Last("initialize_contracts") EXCEPT !.entries = [i \in 1..Len(contracts) |-> contracts[i].address]]
        /\ UNCHANGED cheatVars

InitState ==
    /\ last' = Last("init_state")
    /\ UNCHANGED <<host, written>>
    /\ UNCHANGED cheatVars

GetCode ==
    \E address \in Address :
        /\ last' = [Last("get_code") EXCEPT
                       !.address = address,
                       !.result = IF get_code(host, address) = None THEN "None" ELSE "Some"]
        /\ UNCHANGED <<host, written>>
        /\ UNCHANGED cheatVars

Call ==
    \E to \in Address, func \in Functions, args_encode \in BOOLEAN, value \in {0} :
        \E o \in EvmOdin_call(host, ZeroAddress, to, func, args_encode, value) :
            /\ host' = o.host
            /\ last' = [Last("call") EXCEPT
                           !.address = to, !.func = func, !.encoded = args_encode,
                           !.result = o.result, !.status = o.status,
                           !.executed = o.executed, !.is_static = o.is_static]
            /\ UNCHANGED written
            /\ UNCHANGED cheatVars

CheckSuccess ==
    \E address \in Address, result \in StatusCode, should_fail \in BOOLEAN :
        \E o \in check_success(host, address, result, should_fail) :
            /\ host' = o.host
            /\ last' = [Last("check_success") EXCEPT
                           !.address = address, !.status = result,
                           !.should_fail = should_fail, !.probe = o.probe,
                           !.value = o.value]
            /\ UNCHANGED written
            /\ UNCHANGED cheatVars

\* ------------------------------------------------------------------------
\* CheatcodeHandler over the sputnik StackExecutor
\* ------------------------------------------------------------------------
CHEATCODE_ADDRESS == "0x7109709ECfa91a80626fF3989D68f67F5b1DD12D"

TestAddress == "0x1000000000000000000000000000000000000000"

HAddress == {CHEATCODE_ADDRESS, TestAddress}
Index == {0}
Value == {0, 1}

\* vec![1; 32]
Ones(n) == [i \in 1..n |-> 1]

\* the native block context of the backend (new_vicinity())
vicinity ==
    [gas_price |-> 0, origin |-> ZeroAddress, chain_id |-> 1, block_number |-> 0,
     block_coinbase |-> ZeroAddress, block_timestamp |-> 1, block_difficulty |-> 0,
     block_gas_limit |-> 12000000]

\* the code held by the backend: the test contract's runtime code
BackendCode(address) == IF address = TestAddress THEN <<0, 1>> ELSE <<>>

\* state of the wrapped StackExecutor: the substate over the owned
\* MemoryStackStateOwned (storage, logs, deletes) and the cheats of the
\* CheatcodeBackend
NewHandler ==
    [storage |-> [k \in HAddress \X Index |-> 0],
     logs |-> <<>>,
     deleted |-> {},
     cheats |-> [block_timestamp |-> None]]

\* CheatcodeBackend::block_timestamp: the override when set, else the native value
CheatcodeBackend_block_timestamp(h) ==
    IF h.cheats.block_timestamp = None THEN vicinity.block_timestamp
    ELSE h.cheats.block_timestamp[1]

Ret(result, state) == [result |-> result, state |-> state]

\* StackExecutor's call path: the code at code_address runs in the wrapped
\* executor, with the executor itself as the handler of nested calls. It
\* reads the cheats through the Backend trait and cannot change them.
StackExecutor_call(h, a) ==
    IF a.target_gas = Some(0)
    THEN Ret(<<"Exit", "Error(OutOfGas)", <<>> >>, h)
    ELSE IF BackendCode(a.code_address) = <<>>
    THEN Ret(<<"Exit", "Succeed(Stopped)", <<>> >>, h)
    ELSE Ret(<<"Exit", "Succeed(Returned)", a.input>>,
             IF a.is_static THEN h
             ELSE [h EXCEPT !.storage[<<a.context.address, 0>>] = 1])

\* StackExecutor::transact_call: a top-level call run by the wrapped executor
StackExecutor_transact_call(h, a) ==
    IF BackendCode(a.address) = <<>>
    THEN Ret(<<"Succeed(Stopped)", <<>> >>, h)
    ELSE Ret(<<"Succeed(Returned)", a.data>>,
             [h EXCEPT !.storage[<<a.address, 0>>] = 1])

\* StackExecutor::create: the init code runs and the created account's slot is set
StackExecutor_create(h, a) ==
    IF a.init_code = <<>> \/ a.target_gas = Some(0)
    THEN Ret(<<"Exit", "Error(OutOfGas)", None, <<>> >>, h)
    ELSE Ret(<<"Exit", "Succeed(Returned)", Some(TestAddress), <<>> >>,
             [h EXCEPT !.storage[<<TestAddress, 0>>] = a.value])

\* the wrapped handler: the result and the state after method op with arguments a
StackExecutor(h, op, a) ==
    CASE op = "call" -> StackExecutor_call(h, a)
      [] op = "transact_call" -> StackExecutor_transact_call(h, a)
      [] op = "create" -> StackExecutor_create(h, a)
      [] op = "balance" -> Ret(0, h)
      [] op = "code_size" -> Ret(Len(BackendCode(a.address)), h)
      [] op = "code_hash" -> Ret(keccak256(BackendCode(a.address)), h)
      [] op = "code" -> Ret(BackendCode(a.address), h)
      [] op = "storage" -> Ret(h.storage[<<a.address, a.index>>], h)
      [] op = "original_storage" -> Ret(0, h)
      [] op = "gas_left" -> Ret(10000000, h)
      [] op = "gas_price" -> Ret(vicinity.gas_price, h)
      [] op = "origin" -> Ret(vicinity.origin, h)
      [] op = "block_hash" -> Ret(0, h)
      [] op = "block_number" -> Ret(vicinity.block_number, h)
      [] op = "block_coinbase" -> Ret(vicinity.block_coinbase, h)
      [] op = "block_timestamp" -> Ret(CheatcodeBackend_block_timestamp(h), h)
      [] op = "block_difficulty" -> Ret(vicinity.block_difficulty, h)
      [] op = "block_gas_limit" -> Ret(vicinity.block_gas_limit, h)
      [] op = "chain_id" -> Ret(vicinity.chain_id, h)
      [] op = "exists" -> Ret(BackendCode(a.address) # <<>>, h)
      [] op = "deleted" -> Ret(a.address \in h.deleted, h)
      [] op = "is_cold" -> Ret(a.index # None, h)
      [] op = "set_storage" ->
            Ret("Ok", [h EXCEPT !.storage[<<a.address, a.index>>] = a.value])
      [] op = "log" -> Ret("Ok", [h EXCEPT !.logs = Append(@, a)])
      [] op = "mark_delete" -> Ret("Ok", [h EXCEPT !.deleted = @ \cup {a.address}])
      [] op = "pre_validate" -> Ret("Ok", h)

\* a method of the wrapper that hands its arguments to the same method of
\* self.handler and returns what it returns
Delegate(h, op, a) ==
    LET r == StackExecutor(h, op, a)
    IN  [invoked |-> [op |-> op, args |-> a], result |-> r.result, state |-> r.state]

NoArgs == [none |-> TRUE]

\* CheatcodeStackExecutor::transact_call
transact_call(h, caller, address, value, data, gas_limit, access_list) ==
    Delegate(h, "transact_call",
             [caller |-> caller, address |-> address, value |-> value, data |-> data,
              gas_limit |-> gas_limit, access_list |-> access_list])

\* apply_cheatcode that toggles the override instead of setting it
apply_cheatcode_toggle(h, input) ==
    [invoked |-> [op |-> "state_mut", args |-> NoArgs],
     result |-> <<"Exit", "Succeed(Stopped)", Ones(32)>>,
     state |-> [h EXCEPT !.cheats.block_timestamp =
                             IF @ = None THEN Some(100) ELSE None]]

\* CheatcodeStackExecutor::apply_cheatcode
apply_cheatcode(h, input) ==
    [invoked |-> [op |-> "state_mut", args |-> NoArgs],
     result |-> <<"Exit", "Succeed(Stopped)", Ones(32)>>,
     state |-> [h EXCEPT !.cheats.block_timestamp = Some(100)]]

\* Handler::call without the interception
Handler_call_no_hook(h, code_address, transfer, input, target_gas, is_static, context) ==
    Delegate(h, "call",
             [code_address |-> code_address, transfer |-> transfer, input |-> input,
              target_gas |-> target_gas, is_static |-> is_static, context |-> context])

\* Handler::call that forwards without the static flag
Handler_call_drops_static(h, code_address, transfer, input, target_gas, is_static, context) ==
    IF code_address = CHEATCODE_ADDRESS
    THEN apply_cheatcode(h, input)
    ELSE Delegate(h, "call",
                  [code_address |-> code_address, transfer |-> transfer, input |-> input,
                   target_gas |-> target_gas, is_static |-> FALSE,
                   context |-> context])

\* Handler::call
Handler_call(h, code_address, transfer, input, target_gas, is_static, context) ==
    IF code_address = CHEATCODE_ADDRESS
    THEN apply_cheatcode(h, input)
    ELSE Delegate(h, "call",
                  [code_address |-> code_address, transfer |-> transfer, input |-> input,
                   target_gas |-> target_gas, is_static |-> is_static,
                   context |-> context])

\* Handler::balance, code_size, code_hash, code, exists, deleted
Handler_balance(h, address) == Delegate(h, "balance", [address |-> address])
Handler_code_size(h, address) == Delegate(h, "code_size", [address |-> address])
Handler_code_hash(h, address) == Delegate(h, "code_hash", [address |-> address])
Handler_code(h, address) == Delegate(h, "code", [address |-> address])
Handler_exists(h, address) == Delegate(h, "exists", [address |-> address])
Handler_deleted(h, address) == Delegate(h, "deleted", [address |-> address])

\* Handler::storage, original_storage, is_cold
Handler_storage(h, address, index) ==
    Delegate(h, "storage", [address |-> address, index |-> index])
Handler_original_storage(h, address, index) ==
    Delegate(h, "original_storage", [address |-> address, index |-> index])
Handler_is_cold(h, address, index) ==
    Delegate(h, "is_cold", [address |-> address, index |-> index])

\* Handler::gas_left, gas_price, origin, block_*, chain_id
Handler_gas_left(h) == Delegate(h, "gas_left", NoArgs)
Handler_gas_price(h) == Delegate(h, "gas_price", NoArgs)
Handler_origin(h) == Delegate(h, "origin", NoArgs)
Handler_block_hash(h, number) == Delegate(h, "block_hash", [number |-> number])
Handler_block_number(h) == Delegate(h, "block_number", NoArgs)
Handler_block_coinbase(h) == Delegate(h, "block_coinbase", NoArgs)
Handler_block_timestamp(h) == Delegate(h, "block_timestamp", NoArgs)
Handler_block_difficulty(h) == Delegate(h, "block_difficulty", NoArgs)
Handler_block_gas_limit(h) == Delegate(h, "block_gas_limit", NoArgs)
Handler_chain_id(h) == Delegate(h, "chain_id", NoArgs)

\* Handler::set_storage, log, mark_delete, create, pre_validate
Handler_set_storage(h, address, index, value) ==
    Delegate(h, "set_storage", [address |-> address, index |-> index, value |-> value])
Handler_log(h, address, topics, data) ==
    Delegate(h, "log", [address |-> address, topics |-> topics, data |-> data])
Handler_mark_delete(h, address, target) ==
    Delegate(h, "mark_delete", [address |-> address, target |-> target])
Handler_create(h, caller, scheme, value, init_code, target_gas) ==
    Delegate(h, "create",
             [caller |-> caller, scheme |-> scheme, value |-> value,
              init_code |-> init_code, target_gas |-> target_gas])
Handler_pre_validate(h, context, opcode, stack) ==
    Delegate(h, "pre_validate", [context |-> context, opcode |-> opcode, stack |-> stack])

\* ---- actions of the handler ---------------------------------------------
\* One operation on the wrapper: r is what the wrapper's method produced;
\* the bare wrapped handler runs method op on the same arguments from the
\* same state.
Operate(op, a, r) ==
    /\ handler' = r.state
    /\ invoked' = r.invoked
    /\ hlast' = [op |-> op, args |-> a, result |-> r.result]
    /\ bare' = StackExecutor(handler, op, a)
    /\ UNCHANGED odinVars

Context(address) == [address |-> address, caller |-> ZeroAddress, apparent_value |-> 0]
Transfers == {None, Some([source |-> ZeroAddress, target |-> TestAddress, value |-> 1])}
Inputs == {<<>>, <<1>>}
Gas == {None, Some(0)}

TransactCall ==
    \E address \in HAddress, data \in Inputs :
        Operate("transact_call",
                [caller |-> ZeroAddress, address |-> address, value |-> 0, data |-> data,
                 gas_limit |-> 10000000, access_list |-> <<>>],
                transact_call(handler, ZeroAddress, address, 0, data, 10000000, <<>>))

HandlerCall ==
    \E code_address \in HAddress, transfer \in Transfers, input \in Inputs,
       target_gas \in Gas, is_static \in BOOLEAN, storage_address \in HAddress :
        LET context == Context(storage_address)
        IN  Operate("call",
                    [code_address |-> code_address, transfer |-> transfer,
                     input |-> input, target_gas |-> target_gas,
                     is_static |-> is_static, context |-> context],
                    Handler_call(handler, code_address, transfer, input, target_gas,
                                 is_static, context))

Balance ==
    \E address \in HAddress :
        Operate("balance", [address |-> address], Handler_balance(handler, address))

CodeSize ==
    \E address \in HAddress :
        Operate("code_size", [address |-> address], Handler_code_size(handler, address))

CodeHash ==
    \E address \in HAddress :
        Operate("code_hash", [address |-> address], Handler_code_hash(handler, address))

Code ==
    \E address \in HAddress :
        Operate("code", [address |-> address], Handler_code(handler, address))

Storage ==
    \E address \in HAddress, index \in Index :
        Operate("storage", [address |-> address, index |-> index],
                Handler_storage(handler, address, index))

OriginalStorage ==
    \E address \in HAddress, index \in Index :
        Operate("original_storage", [address |-> address, index |-> index],
                Handler_original_storage(handler, address, index))

GasLeft == Operate("gas_left", NoArgs, Handler_gas_left(handler))
GasPrice == Operate("gas_price", NoArgs, Handler_gas_price(handler))
Origin == Operate("origin", NoArgs, Handler_origin(handler))
BlockHash ==
    \E number \in {0} :
        Operate("block_hash", [number |-> number], Handler_block_hash(handler, number))
BlockNumber == Operate("block_number", NoArgs, Handler_block_number(handler))
BlockCoinbase == Operate("block_coinbase", NoArgs, Handler_block_coinbase(handler))
BlockTimestamp == Operate("block_timestamp", NoArgs, Handler_block_timestamp(handler))
BlockDifficulty == Operate("block_difficulty", NoArgs, Handler_block_difficulty(handler))
BlockGasLimit == Operate("block_gas_limit", NoArgs, Handler_block_gas_limit(handler))
ChainId == Operate("chain_id", NoArgs, Handler_chain_id(handler))

Exists ==
    \E address \in HAddress :
        Operate("exists", [address |-> address], Handler_exists(handler, address))

Deleted ==
    \E address \in HAddress :
        Operate("deleted", [address |-> address], Handler_deleted(handler, address))

IsCold ==
    \E address \in HAddress, index \in {None, Some(0)} :
        Operate("is_cold", [address |-> address, index |-> index],
                Handler_is_cold(handler, address, index))

SetStorage ==
    \E address \in HAddress, index \in Index, value \in Value :
        Operate("set_storage", [address |-> address, index |-> index, value |-> value],
                Handler_set_storage(handler, address, index, value))

Log ==
    /\ Len(handler.logs) < MaxLogs
    /\ \E address \in HAddress, data \in {<<1>>} :
        Operate("log", [address |-> address, topics |-> <<>>, data |-> data],
                Handler_log(handler, address, <<>>, data))

MarkDelete ==
    \E address \in {TestAddress}, target \in HAddress :
        Operate("mark_delete", [address |-> address, target |-> target],
                Handler_mark_delete(handler, address, target))

Create ==
    \E scheme \in {"Legacy", "Create2"}, value \in {1}, init_code \in Inputs,
       target_gas \in {None} :
        Operate("create",
                [caller |-> TestAddress, scheme |-> scheme, value |-> value,
                 init_code |-> init_code, target_gas |-> target_gas],
                Handler_create(handler, TestAddress, scheme, value, init_code, target_gas))

PreValidate ==
    \E context \in {Context(TestAddress)}, opcode \in {"SSTORE", "CALL"} :
        Operate("pre_validate", [context |-> context, opcode |-> opcode, stack |-> <<>>],
                Handler_pre_validate(handler, context, opcode, <<>>))

HandlerInit ==
    /\ handler = NewHandler
    /\ invoked = [op |-> "none", args |-> NoArgs]
    /\ hlast = [op |-> "new", args |-> NoArgs, result |-> "none"]
    /\ bare = Ret("none", NewHandler)

Init ==
    /\ host \in HostStates
    /\ written = NothingWritten
    /\ last = Last("new")
    /\ HandlerInit

Next ==
    \/ Reset
    \/ InitializeContracts
    \/ InitState
    \/ GetCode
    \/ Call
    \/ CheckSuccess

Spec == Init /\ [][Next]_vars

\* the code-storage extension alone, from MockedHost::default()
InitInstall ==
    /\ host = DefaultHost
    /\ written = NothingWritten
    /\ last = Last("new")
    /\ HandlerInit

NextInstall ==
    \/ InitializeContracts
    \/ InitState
    \/ GetCode

SpecInstall == InitInstall /\ [][NextInstall]_vars

\* the cheatcode handler
NextCheat ==
    \/ TransactCall
    \/ HandlerCall
    \/ Balance
    \/ CodeSize
    \/ CodeHash
    \/ Code
    \/ Storage
    \/ OriginalStorage
    \/ GasLeft
    \/ GasPrice
    \/ Origin
    \/ BlockHash
    \/ BlockNumber
    \/ BlockCoinbase
    \/ BlockTimestamp
    \/ BlockDifficulty
    \/ BlockGasLimit
    \/ ChainId
    \/ Exists
    \/ Deleted
    \/ IsCold
    \/ SetStorage
    \/ Log
    \/ MarkDelete
    \/ Create
    \/ PreValidate

InitCheat ==
    /\ host = DefaultHost
    /\ written = NothingWritten
    /\ last = Last("new")
    /\ HandlerInit

SpecCheat == InitCheat /\ [][NextCheat]_vars

\* ------------------------------------------------------------------------
\* Properties
\* ------------------------------------------------------------------------
ExpectedFailureProbed ==
    /\ last.op = "check_success"
    /\ last.should_fail
    /\ last.status = "Success"

\* C1 as stated: with should_fail = true and status = Success, check_success
\* returns true exactly when the failed() probe reports false or cannot be
\* answered, and false exactly when the probe reports true.
C1_AsStated ==
    ExpectedFailureProbed =>
        /\ last.value <=> last.probe \in {"Ok(false)", "Err"}
        /\ ~last.value <=> last.probe = "Ok(true)"

\* C1 amended: with should_fail = true and status = Success, check_success
\* returns the probe's answer: true exactly when failed() reports true, and
\* false when it reports false or cannot be answered.
C1_ProbeAnswerReturned ==
    ExpectedFailureProbed =>
        /\ last.probe \in {"Ok(true)", "Ok(false)", "Err"}
        /\ last.value <=> last.probe = "Ok(true)"
        /\ ~last.value <=> last.probe \in {"Ok(false)", "Err"}

C1_Witness ==
    /\ ExpectedFailureProbed
    /\ last.probe = "Ok(true)"
    /\ last.value

C4_Step ==
    (/\ last'.op = "call"
     /\ last'.encoded
     /\ last'.address \notin DOMAIN host)
        => /\ last'.result = "NoContractErr"
           /\ ~last'.executed
           /\ host' = host

\* C4: a call whose arguments encode and whose destination has no account
\* returns the missing-contract error, never runs the engine and leaves the
\* host as it was.
C4_MissingContractError == [][C4_Step]_vars

C4_Witness ==
    /\ last.op = "call"
    /\ last.encoded
    /\ last.address \notin DOMAIN host
    /\ last.result = "NoContractErr"

C5_Step ==
    last'.op = "initialize_contracts" =>
        \A i \in 1..Len(last'.entries) :
            LET a == last'.entries[i]
            IN  a \in DOMAIN host =>
                    /\ host'[a].balance = host[a].balance
                    /\ host'[a].nonce = host[a].nonce

\* C5 as stated: initialize_contracts leaves the balance and the nonce of an
\* account that already exists at an installed address as they were.
C5_BalanceNonceKept == [][C5_Step]_vars

\* C6: after any sequence of initialize_contracts calls on a fresh host, every
\* installed address holds the code of its last entry with the hash of that
\* code, and an address never installed has no code.
C6_LastWriteWins ==
    \A a \in Address :
        IF written[a] = None
        THEN get_code(host, a) = None
        ELSE /\ get_code(host, a) = written[a]
             /\ host[a].code_hash = keccak256(written[a][1])

C6_Witness ==
    /\ last.op = "initialize_contracts"
    /\ Len(last.entries) = 2
    /\ last.entries[1] = last.entries[2]
    /\ \E a \in Address :
        /\ a \notin {last.entries[i] : i \in 1..Len(last.entries)}
        /\ written[a] # None
        /\ written[last.entries[1]] # written[a]

\* C8 as stated: the message handed to the engine is static exactly when the
\* function's state mutability is view or pure.
C8_AsStated ==
    (last.op = "call" /\ last.executed) =>
        (last.is_static <=> last.func.state_mutability \in {"View", "Pure"})

\* C8 amended: the message handed to the engine is static exactly when the
\* function is view or pure or carries the deprecated constant flag.
C8_StaticFlag ==
    (last.op = "call" /\ last.executed) =>
        (last.is_static <=>
            (last.func.constant \/ last.func.state_mutability \in {"View", "Pure"}))

C8_Witness ==
    /\ last.op = "call"
    /\ last.executed
    /\ last.func.constant
    /\ last.func.state_mutability = "NonPayable"
    /\ last.is_static

\* C9: outside the case should_fail = true with status Success, check_success
\* is decided by the status alone and makes no probe: without should_fail it
\* is true exactly for Success; with should_fail it is true for Revert and
\* false for every other status.
C9_StatusAlone ==
    (last.op = "check_success" /\ ~(last.should_fail /\ last.status = "Success")) =>
        /\ last.probe = "none"
        /\ ~last.should_fail => (last.value <=> last.status = "Success")
        /\ last.should_fail => (last.value <=> last.status = "Revert")

C9_Witness ==
    /\ last.op = "check_success"
    /\ last.should_fail
    /\ last.status = "OutOfGas"
    /\ ~last.value
    /\ last.address \in DOMAIN host

CheatCall(l) == l.op = "call" /\ l.args.code_address = CHEATCODE_ADDRESS

\* C2: a Handler::call to CHEATCODE_ADDRESS does not invoke the wrapped
\* handler's call, sets the timestamp override to 100 and returns
\* Exit(Succeed(Stopped)) with 32 bytes of payload, whatever its arguments.
C2_CheatCallIntercepted ==
    CheatCall(hlast) =>
        /\ invoked.op # "call"
        /\ handler.cheats.block_timestamp = Some(100)
        /\ hlast.result = <<"Exit", "Succeed(Stopped)", Ones(32)>>
        /\ Len(hlast.result[3]) = 32

C2_Witness ==
    /\ CheatCall(hlast)
    /\ hlast.args.input = <<1>>
    /\ hlast.args.is_static
    /\ hlast.args.transfer # None
    /\ hlast.args.target_gas = Some(0)
    /\ hlast.args.context.address = TestAddress

C3_Step ==
    LET before == handler.cheats.block_timestamp
        after == handler'.cheats.block_timestamp
    IN  /\ CheatCall(hlast') => after = Some(100)
        /\ ~CheatCall(hlast') => after = before
        /\ before = Some(100) => after = Some(100)
        /\ hlast'.op = "block_timestamp" =>
               hlast'.result = IF before = None THEN vicinity.block_timestamp ELSE 100

HandlerOps ==
    {"call", "balance", "code_size", "code_hash", "code", "storage", "original_storage",
     "gas_left", "gas_price", "origin", "block_hash", "block_number", "block_coinbase",
     "block_timestamp", "block_difficulty", "block_gas_limit", "chain_id", "exists",
     "deleted", "is_cold", "set_storage", "log", "mark_delete", "create", "pre_validate"}

\* C7: every Handler operation other than a call to CHEATCODE_ADDRESS hands
\* the wrapped handler the same method with the arguments received, returns
\* its result, and leaves the state the bare wrapped handler reaches from the
\* same state.
C7_Transparent ==
    (hlast.op \in HandlerOps /\ ~CheatCall(hlast)) =>
        /\ invoked = [op |-> hlast.op, args |-> hlast.args]
        /\ hlast.result = bare.result
        /\ handler = bare.state

C7_Witness ==
    /\ hlast.op = "call"
    /\ hlast.args.code_address = TestAddress
    /\ hlast.args.is_static
    /\ hlast.args.input = <<1>>
    /\ hlast.result = <<"Exit", "Succeed(Returned)", <<1>> >>
    /\ handler.cheats.block_timestamp = Some(100)

\* C10 as stated: a top-level transact_call to CHEATCODE_ADDRESS is diverted to
\* cheat processing: the override is set and the synthesized result returned.
C10_TransactCallDiverted ==
    (hlast.op = "transact_call" /\ hlast.args.address = CHEATCODE_ADDRESS) =>
        /\ handler.cheats.block_timestamp = Some(100)
        /\ hlast.result = <<"Succeed(Stopped)", Ones(32)>>

====
